---------------------------- MODULE Spec2Model ----------------------------
(***************************************************************************)
(* A model of wol, the command-line volume controller:                     *)
(*   - args.rs    the argument preprocessor (Preprocessor::next)           *)
(*   - main.rs    the adjustment parser (Adjust::parse, Value::parse,      *)
(*                Channel::parse), Adjust::apply, parse_args and run       *)
(*   - main.rs    the volume model (set_master, set_channel, commit);      *)
(*                volume.rs holds a verbatim second copy of it             *)
(*                                                                         *)
(* Strings are sequences of one-character strings, so that prefixes,       *)
(* splits and digit parsing are computed as the code computes them.        *)
(* Levels (f32 in the code) are exact rationals <<n, d>> in lowest terms,  *)
(* d > 0: comparisons are exact as in the code, rounding is not modelled.  *)
(***************************************************************************)
EXTENDS Integers, Sequences, FiniteSets, TLC

VARIABLES
    argv,       \* the raw argument list handed to preprocess()
    pre,        \* the Preprocessor: [buf, args, double_dash]
    ret,        \* what the last call of next() returned: <<>> (None) or <<token>>
    emitted,    \* every token returned so far, in order
    input,      \* the string handed to Adjust::parse
    parsed,     \* its result: <<"Ok", adjust>>, <<"Err", message>> or <<"None">>
    pc,         \* the position of run()
    x,          \* the Args record parse_args builds
    err,        \* the error or exit the run ended with
    ai,         \* the apply loop's position in x.adjusts
    vol,        \* the Volume: [master, channels, init_master, init_channels]
    dev,        \* the levels on the device: [master, channels]
    writes,     \* the device writes issued by commit, in order
    status,     \* commit's result: "None" (not called), "Ok", "Guard", "Device"
    call,       \* the commit call: [force, screen_reader, failAt], failAt the
                \* device call that failed during it (0: none)
    nops,       \* the number of set_master/set_channel calls made
    last        \* the last set_master/set_channel call: [op, c, val]

vars == <<argv, pre, ret, emitted, input, parsed, pc, x, err, ai,
          vol, dev, writes, status, call, nops, last>>

preVars == <<argv, pre, ret, emitted>>
parseVars == <<input, parsed>>
runVars == <<pc, x, err, ai>>
volVars == <<vol, dev, writes, status, call, nops, last>>

---------------------------------------------------------------------------
(* Bounds *)

\* the longest raw argument list of the preprocessor's specification
MaxArgs == 3

\* the longest string of the parser's specification
MaxLen == 4

\* the most channels a device of the model reports
MaxChan == 2

\* the most set_master/set_channel calls before commit
MaxOps == 2

\* the longest command line of the run's specification
MaxRunArgs == 2

---------------------------------------------------------------------------
(* Strings *)

Digits == {"0", "1", "2", "3", "4", "5", "6", "7", "8", "9"}

DigitVal(c) ==
    CASE c = "0" -> 0 [] c = "1" -> 1 [] c = "2" -> 2 [] c = "3" -> 3
      [] c = "4" -> 4 [] c = "5" -> 5 [] c = "6" -> 6 [] c = "7" -> 7
      [] c = "8" -> 8 [] c = "9" -> 9

\* s[from..] of the code: the suffix of s starting at index from (1-based here)
Suffix(s, from) == SubSeq(s, from, Len(s))

\* s.starts_with(p)
StartsWith(s, p) == Len(s) >= Len(p) /\ SubSeq(s, 1, Len(p)) = p

\* the least index of s holding a character of set cs, or 0 (s.find([..]))
Find(s, cs) ==
    LET hits == {i \in 1..Len(s) : s[i] \in cs}
    IN  IF hits = {} THEN 0 ELSE CHOOSE i \in hits : \A j \in hits : i <= j

\* every sequence over set S of length at most n
SeqsUpTo(S, n) == UNION {[1..k -> S] : k \in 0..n}

---------------------------------------------------------------------------
(* args.rs: the preprocessor *)

\* the short flags that take a value: preprocess(&argv, "di")
shorts_with_val == {"d", "i"}

DoubleDash == <<"-", "-">>

\* args.rs:27, the sticky mode test; the mutant forgets the mode
double_dash_mut(p) == FALSE
double_dash(p) == p.double_dash

\* args.rs:58, flags.starts_with(|c| c.is_ascii_digit()); the mutant drops the test
starts_with_digit_mut(flags) == FALSE
starts_with_digit(flags) == Len(flags) > 0 /\ flags[1] \in Digits

\* args.rs:39, `flag.len() > 2`: the flag is more than the two dashes; the
\* mutant asks for a name of two characters
long_flag_mut(flag) == Len(flag) > 3
long_flag(flag) == Len(flag) > 2

\* s.split_once('='): <<flag, val>> at the first '=', or <<>> when there is
\* none; the mutant splits at the last '=' (rsplit_once)
split_once_mut(s) ==
    LET hits == {i \in 1..Len(s) : s[i] = "="}
        i == IF hits = {} THEN 0 ELSE CHOOSE i \in hits : \A j \in hits : j <= i
    IN  IF i = 0 THEN <<>> ELSE <<SubSeq(s, 1, i - 1), SubSeq(s, i + 1, Len(s))>>
split_once(s) ==
    LET i == Find(s, {"="})
    IN  IF i = 0 THEN <<>> ELSE <<SubSeq(s, 1, i - 1), Suffix(s, i + 1)>>

\* args.rs:62-72: the tokens a flag cluster pushes to buf, scanning flags from
\* index i: "-c" for each character, up to and including the first one that
\* takes a value, whose non-empty remainder follows as one token
\* the mutant goes on past a character that takes a value
RECURSIVE cluster_mut(_, _)
cluster_mut(flags, i) ==
    IF i > Len(flags) THEN <<>>
    ELSE <<(<<"-", flags[i]>>)>> \o cluster_mut(flags, i + 1)

RECURSIVE cluster(_, _)
cluster(flags, i) ==
    IF i > Len(flags) THEN <<>>
    ELSE IF flags[i] \in shorts_with_val
         THEN <<(<<"-", flags[i]>>)>> \o
              (IF Suffix(flags, i + 1) # <<>> THEN <<Suffix(flags, i + 1)>> ELSE <<>>)
         ELSE <<(<<"-", flags[i]>>)>> \o cluster(flags, i + 1)

\* args.rs:31-77: next() once buf is empty and the mode is normal, on the raw
\* argument s = Head(p.args); dd is the state after `--` was read
normal_next(p) ==
    LET s == Head(p.args)
        rest == [p EXCEPT !.args = Tail(p.args)]
        flags == Tail(s)
    IN  IF s = DoubleDash
        THEN \* self.double_dash = true; return self.next()
             LET dd == [rest EXCEPT !.double_dash = TRUE]
             IN  IF dd.args = <<>> THEN [p |-> dd, ret |-> <<>>]
                 ELSE [p |-> [dd EXCEPT !.args = Tail(dd.args)],
                       ret |-> <<Head(dd.args)>>]
        ELSE IF StartsWith(s, DoubleDash)
        THEN LET fv == split_once(s)
             IN  IF fv # <<>> /\ long_flag(fv[1])
                 THEN [p |-> [rest EXCEPT !.buf = Append(rest.buf, fv[2])],
                       ret |-> <<fv[1]>>]
                 ELSE [p |-> rest, ret |-> <<s>>]
        ELSE IF StartsWith(s, <<"-">>)
        THEN IF flags = <<>> THEN [p |-> rest, ret |-> << <<"-">> >>]
             ELSE IF Len(flags) = 1 THEN [p |-> rest, ret |-> <<s>>]
             ELSE IF starts_with_digit(flags) THEN [p |-> rest, ret |-> <<s>>]
             ELSE LET b == rest.buf \o cluster(flags, 1)
                  IN  [p |-> [rest EXCEPT !.buf = Tail(b)], ret |-> <<Head(b)>>]
        ELSE [p |-> rest, ret |-> <<s>>]

\* args.rs:23, `if let Some(a) = self.buf.pop_front()`: a queued token
\* waits; the mutant never looks at the queue first
buf_pending_mut(p) == FALSE
buf_pending(p) == p.buf # <<>>

\* args.rs:22-78, Preprocessor::next: the new preprocessor and the returned
\* Option (<<>> is None)
next(p) ==
    IF buf_pending(p)
    THEN [p |-> [p EXCEPT !.buf = Tail(p.buf)], ret |-> <<Head(p.buf)>>]
    ELSE IF double_dash(p)
    THEN IF p.args = <<>> THEN [p |-> p, ret |-> <<>>]
         ELSE [p |-> [p EXCEPT !.args = Tail(p.args)], ret |-> <<Head(p.args)>>]
    ELSE IF p.args = <<>> THEN [p |-> p, ret |-> <<>>]
    ELSE normal_next(p)

\* args.rs:81-88
preprocess(args) == [buf |-> <<>>, args |-> args, double_dash |-> FALSE]

\* The raw arguments the preprocessor's specification draws from
RawArgs ==
    { <<"-">>, <<"-", "-">>, <<"-", "a">>, <<"-", "3">>, <<"-", "4", "2">>,
      <<"-", "4", "d">>, <<"-", "a", "b">>, <<"-", "a", "b", "c">>,
      <<"-", "d", "a", "b">>, <<"-", "a", "d", "b">>, <<"-", "a", "4">>,
      <<"-", "a", "d">>,
      <<"-", "-", "a", "b", "=", "c">>, <<"-", "-", "=", "c">>,
      <<"-", "-", "a", "b">>, <<"-", "-", "a", "=", "b">>,
      <<"-", "-", "a", "b", "=", "c", "=", "d">>, <<"b">>, <<"a", "=", "b">> }


---------------------------------------------------------------------------
(* main.rs: the adjustment parser *)

\* str::parse::<uN>() on the digits of s from index i, acc the value so far,
\* for a type whose maximum is 10 * maxDiv10 + maxMod10: <<"Ok", n>>,
\* <<"Err", "InvalidDigit">> or <<"Err", "PosOverflow">>
RECURSIVE parse_digits(_, _, _, _, _)
parse_digits(s, i, acc, maxDiv10, maxMod10) ==
    IF i > Len(s) THEN <<"Ok", acc>>
    ELSE IF s[i] \notin Digits THEN <<"Err", "InvalidDigit">>
    ELSE IF acc > maxDiv10 \/ (acc = maxDiv10 /\ DigitVal(s[i]) > maxMod10)
         THEN <<"Err", "PosOverflow">>
    ELSE parse_digits(s, i + 1, acc * 10 + DigitVal(s[i]), maxDiv10, maxMod10)

\* str::parse for an unsigned type: an empty string is Empty, a lone sign is
\* InvalidDigit, a leading '+' is skipped, a '-' is no digit
parse_unsigned(s, maxDiv10, maxMod10) ==
    IF s = <<>> THEN <<"Err", "Empty">>
    ELSE IF s = <<"+">> \/ s = <<"-">> THEN <<"Err", "InvalidDigit">>
    ELSE IF s[1] = "+" THEN parse_digits(Tail(s), 1, 0, maxDiv10, maxMod10)
    ELSE parse_digits(s, 1, 0, maxDiv10, maxMod10)

\* main.rs:120, s.parse::<u8>(): the maximum is 255
parse_u8(s) == parse_unsigned(s, 25, 5)

\* main.rs:112, s.parse::<u32>(): the maximum is 4294967295 (the strings of
\* this model are too short to come near it)
parse_u32(s) == parse_unsigned(s, 429496729, 5)

ValueN(n) == [kind |-> "N", n |-> n]
ValueMasterChannel == [kind |-> "MasterChannel", n |-> 0]
ValueChannel(n) == [kind |-> "Channel", n |-> n]

ChannelMaster == [kind |-> "Master", n |-> 0]
ChannelAll == [kind |-> "All", n |-> 0]
ChannelN(n) == [kind |-> "N", n |-> n]

\* main.rs:104-131, Value::parse
Value_parse(s) ==
    IF s \in {<<"m">>, <<"M">>} THEN <<"Ok", ValueMasterChannel>>
    ELSE IF s \in {<<"l">>, <<"L">>} THEN <<"Ok", ValueChannel(0)>>
    ELSE IF s \in {<<"r">>, <<"R">>} THEN <<"Ok", ValueChannel(1)>>
    ELSE IF s # <<>> /\ s[1] \in {"c", "C"}
    THEN LET n == parse_u32(Tail(s))
         IN  IF n[1] = "Ok" THEN <<"Ok", ValueChannel(n[2])>>
             ELSE IF n[2] = "Empty"
             THEN <<"Err", "missing a channel number after 'c'">>
             ELSE <<"Err", "expected an channel number as an integer from 0 to 2^32 after 'c'">>
    ELSE LET n == parse_u8(s)
         IN  IF n[1] = "Ok" THEN <<"Ok", ValueN(n[2])>>
             ELSE IF n[2] = "Empty" THEN <<"Err", "missing a value">>
             ELSE <<"Err", "the value must be an integer from 0 to 100">>

\* main.rs:133-143, Channel::parse
Channel_parse(s) ==
    IF s \in {<<"l">>, <<"0">>, <<"L">>} THEN <<"Ok", ChannelN(0)>>
    ELSE IF s \in {<<"r">>, <<"1">>, <<"R">>} THEN <<"Ok", ChannelN(1)>>
    ELSE IF s \in {<<"a">>, <<"A">>} THEN <<"Ok", ChannelAll>>
    ELSE IF s \in {<<>>, <<"m">>, <<"M">>} THEN <<"Ok", ChannelMaster>>
    ELSE <<"Err", "the channel value must be one of 'L', 'R', 'A', 'M' or an integer between 0 and 2^32">>

\* the channel prefix taken in upper case only
strip_channel_mut(s) ==
    IF s # <<>> /\ s[1] = "L" THEN <<ChannelN(0), Tail(s)>>
    ELSE IF s # <<>> /\ s[1] = "R" THEN <<ChannelN(1), Tail(s)>>
    ELSE IF s # <<>> /\ s[1] = "A" THEN <<ChannelAll, Tail(s)>>
    ELSE IF s # <<>> /\ s[1] = "M" THEN <<ChannelMaster, Tail(s)>>
    ELSE <<ChannelMaster, s>>

\* main.rs:148-154: the shorthand form's channel prefix, <<channel, rest>>
strip_channel(s) ==
    IF s # <<>> /\ s[1] \in {"L", "l"} THEN <<ChannelN(0), Tail(s)>>
    ELSE IF s # <<>> /\ s[1] \in {"R", "r"} THEN <<ChannelN(1), Tail(s)>>
    ELSE IF s # <<>> /\ s[1] \in {"a", "A"} THEN <<ChannelAll, Tail(s)>>
    ELSE IF s # <<>> /\ s[1] \in {"m", "M"} THEN <<ChannelMaster, Tail(s)>>
    ELSE <<ChannelMaster, s>>

Adjust(op, chan, val) == [op |-> op, chan |-> chan, val |-> val]

\* main.rs:146-175, Adjust::parse
Adjust_parse(s) ==
    LET i == Find(s, {"+", "-", "="})
    IN  IF i = 0
        THEN LET cs == strip_channel(s)
                 val == Value_parse(cs[2])
             IN  IF val[1] = "Err" THEN val
                 ELSE <<"Ok", Adjust("Set", cs[1], val[2])>>
        ELSE LET op == CASE s[i] = "+" -> "Inc"
                         [] s[i] = "-" -> "Dec"
                         [] s[i] = "=" -> "Set"
                 chan == Channel_parse(SubSeq(s, 1, i - 1))
                 val == Value_parse(Suffix(s, i + 1))
             IN  IF chan[1] = "Err" THEN chan
                 ELSE IF val[1] = "Err" THEN val
                 ELSE <<"Ok", Adjust(op, chan[2], val[2])>>

\* The characters the parser's specification builds its inputs from
ParseChars == {"0", "1", "2", "5", "c", "L", "r", "M", "a", "=", "+", "-"}

\* The inputs the specification's examples name
ParseExamples ==
    { <<"L", "4", "0">>, <<"+", "1", "0">>, <<"R", "-", "M">>,
      <<"c", "2", "=", "5", "0">>, <<"1", "0", "1">>, <<>>,
      <<"=", "1", "5", "0">>, <<"L", "2", "0", "0">> }

---------------------------------------------------------------------------
(* Levels: exact rationals <<n, d>>, d > 0, in lowest terms *)

RECURSIVE GCD(_, _)
GCD(a, b) == IF b = 0 THEN a ELSE GCD(b, a % b)

Abs(n) == IF n < 0 THEN -n ELSE n

Rat(n, d) ==
    LET g == GCD(Abs(n), Abs(d))
        sgn == IF d < 0 THEN -1 ELSE 1
    IN  <<(sgn * n) \div g, (sgn * d) \div g>>

Zero == <<0, 1>>
One == <<1, 1>>

RAdd(a, b) == Rat(a[1] * b[2] + b[1] * a[2], a[2] * b[2])
RSub(a, b) == Rat(a[1] * b[2] - b[1] * a[2], a[2] * b[2])
RMul(a, b) == Rat(a[1] * b[1], a[2] * b[2])
RDiv(a, b) == Rat(a[1] * b[2], a[2] * b[1])
RLt(a, b) == a[1] * b[2] < b[1] * a[2]
RLe(a, b) == a[1] * b[2] <= b[1] * a[2]

\* f32::clamp(v, 0.0, 1.0)
clamp01(v) == IF RLt(v, Zero) THEN Zero ELSE IF RLt(One, v) THEN One ELSE v

\* n as f32 / 100.0
Percent(n) == Rat(n, 100)

---------------------------------------------------------------------------
(* main.rs: the volume model (volume.rs holds the same code, line for     *)
(* line, and is not part of the build: main.rs declares no `mod volume`)  *)

\* iter().copied().max_by(f32::total_cmp).unwrap_or(default)
max_or(levels, default) ==
    IF levels = <<>> THEN default
    ELSE LET i == CHOOSE i \in DOMAIN levels :
                      \A j \in DOMAIN levels : RLe(levels[j], levels[i])
         IN  levels[i]

\* main.rs:402-417, Volume::new: the snapshot of the device's levels
Volume_new(d) ==
    [master |-> d.master, channels |-> d.channels,
     init_master |-> d.master, init_channels |-> d.channels]

\* set_channel that leaves the master as it was
set_channel_nomaster(v, c, val) ==
    [v EXCEPT !.channels[c + 1] = clamp01(val)]

\* set_channel with the master raised to the new level and never lowered
set_channel_mut(v, c, val) ==
    LET new == clamp01(val)
    IN  [v EXCEPT !.channels[c + 1] = new,
                  !.master = IF RLt(v.master, new) THEN new ELSE v.master]

\* main.rs:419-428, set_channel; c counts from 0 and is in range
set_channel(v, c, val) ==
    LET chs == [v.channels EXCEPT ![c + 1] = clamp01(val)]
    IN  [v EXCEPT !.channels = chs, !.master = max_or(chs, v.master)]

\* set_master without the branch for a muted master: channels stay where
\* the mute left them
set_master_nounmute(v, val) ==
    LET new == clamp01(val)
    IN  IF new = Zero
        THEN [v EXCEPT !.master = Zero,
                       !.channels = [i \in DOMAIN v.channels |-> Zero]]
        ELSE IF v.master = Zero
        THEN [v EXCEPT !.master = new]
        ELSE [v EXCEPT !.master = new,
                       !.channels = [i \in DOMAIN v.channels |->
                                        RMul(new, RDiv(v.channels[i], v.master))]]

\* set_master with the master assigned before the channels are scaled, so
\* that each ratio is taken to the new master
set_master_early(v, val) ==
    LET new == clamp01(val)
    IN  IF new = Zero
        THEN [v EXCEPT !.master = Zero,
                       !.channels = [i \in DOMAIN v.channels |-> Zero]]
        ELSE IF v.master = Zero
        THEN [v EXCEPT !.master = new,
                       !.channels = [i \in DOMAIN v.channels |-> new]]
        ELSE [v EXCEPT !.master = new,
                       !.channels = [i \in DOMAIN v.channels |->
                                        RMul(new, RDiv(v.channels[i], new))]]

\* main.rs:430-448, set_master
set_master(v, val) ==
    LET new == clamp01(val)
    IN  IF new = Zero
        THEN [v EXCEPT !.master = Zero,
                       !.channels = [i \in DOMAIN v.channels |-> Zero]]
        ELSE IF v.master = Zero
        THEN [v EXCEPT !.master = new,
                       !.channels = [i \in DOMAIN v.channels |-> new]]
        ELSE [v EXCEPT !.master = new,
                       !.channels = [i \in DOMAIN v.channels |->
                                        RMul(new, RDiv(v.channels[i], v.master))]]

\* main.rs:450-452
chan_count(v) == Len(v.channels)

\* the 0.05 of main.rs:468 and :481
Threshold == Rat(5, 100)

\* main.rs:468-484: whether commit returns the screen reader error
guard_refuses(v, force, screen_reader) ==
    /\ ~force
    /\ RLt(v.master, v.init_master)
    /\ RLt(v.master, Threshold)
    /\ LET old_max == max_or(v.init_channels, One)
           new_max == max_or(v.channels, One)
       IN  RLt(new_max, old_max) /\ RLt(new_max, Threshold) /\ screen_reader

\* main.rs:486; the mutant always takes the master for changed
master_changed_mut(v) == TRUE
master_changed(v) == v.master # v.init_master

MasterWrite(level) == [kind |-> "master", chan |-> 0, level |-> level]
ChannelWrite(c, level) == [kind |-> "channel", chan |-> c, level |-> level]

\* main.rs:497; the mutant writes the changed channels only
channel_dirty_mut(v, i) == v.init_channels[i + 1] # v.channels[i + 1]
channel_dirty(v, i) ==
    master_changed(v) \/ v.init_channels[i + 1] # v.channels[i + 1]

\* main.rs:491-500: the channel writes the loop calls for, from index i on
RECURSIVE channel_writes(_, _)
channel_writes(v, i) ==
    IF i >= Len(v.init_channels) \/ i >= Len(v.channels) THEN <<>>
    ELSE (IF channel_dirty(v, i)
          THEN <<ChannelWrite(i, v.channels[i + 1])>> ELSE <<>>)
         \o channel_writes(v, i + 1)

\* main.rs:486-500: the device calls commit makes when none fails
commit_writes(v) ==
    (IF master_changed(v) THEN <<MasterWrite(v.master)>> ELSE <<>>)
    \o channel_writes(v, 0)

\* the device after the writes ws succeeded, in order
RECURSIVE device_after(_, _)
device_after(d, ws) ==
    IF ws = <<>> THEN d
    ELSE LET w == Head(ws)
         IN  device_after(
                 IF w.kind = "master" THEN [d EXCEPT !.master = w.level]
                 ELSE [d EXCEPT !.channels[w.chan + 1] = w.level],
                 Tail(ws))

\* main.rs:498 and :488, the `?` after a device write: whether commit stops
\* at the call that failed; the mutant carries on
stops_at_failure_mut(plan, failAt) == FALSE
stops_at_failure(plan, failAt) == failAt \in 1..Len(plan)

\* main.rs:466-503, commit, when the failAt-th device call fails (0: none
\* does): its result, the device calls made, and the device afterwards
commit(v, d, force, screen_reader, failAt) ==
    IF guard_refuses(v, force, screen_reader)
    THEN [status |-> "Guard", writes |-> <<>>, dev |-> d]
    ELSE LET plan == commit_writes(v)
         IN  IF stops_at_failure(plan, failAt)
             THEN [status |-> "Device",
                   writes |-> SubSeq(plan, 1, failAt),
                   dev |-> device_after(d, SubSeq(plan, 1, failAt - 1))]
             ELSE [status |-> "Ok",
                   writes |-> plan,
                   dev |-> device_after(d, plan)]

\* The levels a device reports, and the levels handed to set_master and
\* set_channel (one of them above 1.0)
DevLevels == {Rat(2, 5), Rat(4, 5)}
SetLevels == {Zero, Rat(1, 50), Rat(2, 5), Rat(1, 2), Rat(9, 10), Rat(3, 2)}

---------------------------------------------------------------------------
(* main.rs: Adjust::apply, parse_args and run *)

\* main.rs:184-188, the closure `new`
new_level(op, old, val) ==
    CASE op = "Set" -> val
      [] op = "Inc" -> clamp01(RAdd(old, val))
      [] op = "Dec" -> clamp01(RSub(old, val))

\* main.rs:199-204: the loop of Channel::All from channel c on
RECURSIVE apply_all(_, _, _, _)
apply_all(v, c, op, val) ==
    IF c >= chan_count(v) THEN v
    ELSE apply_all(set_channel(v, c, new_level(op, v.channels[c + 1], val)),
                   c + 1, op, val)

\* main.rs:181, :196-197: an index past the end of channels panics
\* (self.channels[c as usize])
index_panics(v, c) == c >= chan_count(v)

\* the value read from the levels the Volume was built with
resolve_snapshot(val, v) ==
    CASE val.kind = "N" -> Percent(val.n)
      [] val.kind = "MasterChannel" -> v.init_master
      [] val.kind = "Channel" -> v.init_channels[val.n + 1]

\* main.rs:178-182: the value of an adjustment, read from the Volume as it
\* is when apply runs; a Channel value is in range here
resolve(val, v) ==
    CASE val.kind = "N" -> Percent(val.n)
      [] val.kind = "MasterChannel" -> v.master
      [] val.kind = "Channel" -> v.channels[val.n + 1]

\* main.rs:177-207, Adjust::apply: <<"Ok", the volume after>> or <<"Panic">>
Adjust_apply(a, v) ==
    IF a.val.kind = "Channel" /\ index_panics(v, a.val.n) THEN <<"Panic">>
    ELSE LET val == resolve(a.val, v)
         IN  CASE a.chan.kind = "Master" ->
                    <<"Ok", set_master(v, new_level(a.op, v.master, val))>>
               [] a.chan.kind = "N" ->
                    IF index_panics(v, a.chan.n) THEN <<"Panic">>
                    ELSE <<"Ok", set_channel(v, a.chan.n,
                                    new_level(a.op, v.channels[a.chan.n + 1], val))>>
               [] a.chan.kind = "All" ->
                    <<"Ok", apply_all(v, 0, a.op, val)>>

\* the option spellings parse_args matches (main.rs:249-286)
Opt_h == <<"-", "h">>
Opt_help == <<"-", "-", "h", "e", "l", "p">>
Opt_V == <<"-", "V">>
Opt_version == <<"-", "-", "v", "e", "r", "s", "i", "o", "n">>
Opt_l == <<"-", "l">>
Opt_list == <<"-", "-", "l", "i", "s", "t">>
Opt_f == <<"-", "f">>
Opt_force == <<"-", "-", "f", "o", "r", "c", "e">>
Opt_n == <<"-", "n">>
Opt_dry == <<"-", "-", "d", "r", "y">>
Opt_q == <<"-", "q">>
Opt_quiet == <<"-", "-", "q", "u", "i", "e", "t">>
Opt_d == <<"-", "d">>
Opt_device == <<"-", "-", "d", "e", "v", "i", "c", "e">>
Opt_i == <<"-", "i">>
Opt_id == <<"-", "-", "i", "d">>

\* the spelling the help text documents for the dry run (main.rs:36)
Opt_dry_run == <<"-", "-", "d", "r", "y", "-", "r", "u", "n">>

Exit(xx, p, to, kind, tok) ==
    [x |-> xx, p |-> p, pc |-> to, err |-> [kind |-> kind, tok |-> tok]]

\* main.rs:236-245: after a "--" token every further token is an adjustment
RECURSIVE parse_rest(_, _)
parse_rest(xx, p) ==
    LET r == next(p)
    IN  IF r.ret = <<>> THEN Exit(xx, r.p, "device", "none", <<>>)
        ELSE LET a == Adjust_parse(r.ret[1])
             IN  IF a[1] = "Err" THEN Exit(xx, r.p, "exit1", "parse", r.ret[1])
                 ELSE parse_rest([xx EXCEPT !.adjusts = Append(@, a[2])], r.p)

\* main.rs:294-295: a dash not followed by a digit is an unknown option
unknown_option(s) ==
    s # <<>> /\ s[1] = "-" /\ ~(Len(s) >= 2 /\ s[2] \in Digits)

\* main.rs:277, the spellings matched for the dry run
is_dry(s) == s \in {Opt_n, Opt_dry}

\* main.rs:234-310: one turn of parse_args' loop on the token s just read,
\* p the preprocessor after the read
parse_arg(xx, p, s, enumerate_fails) ==
    IF s = DoubleDash THEN parse_rest(xx, p)
    ELSE IF s \in {Opt_h, Opt_help} THEN Exit(xx, p, "exit0", "help", s)
    ELSE IF s \in {Opt_V, Opt_version} THEN Exit(xx, p, "exit0", "version", s)
    ELSE IF s \in {Opt_l, Opt_list}
    THEN IF enumerate_fails THEN Exit(xx, p, "exit1", "device", s)
         ELSE Exit(xx, p, "exit0", "list", s)
    ELSE IF s \in {Opt_f, Opt_force}
    THEN Exit([xx EXCEPT !.force = TRUE], p, "parse_args", "none", <<>>)
    ELSE IF is_dry(s)
    THEN Exit([xx EXCEPT !.dry = TRUE], p, "parse_args", "none", <<>>)
    ELSE IF s \in {Opt_q, Opt_quiet}
    THEN Exit([xx EXCEPT !.quiet = TRUE], p, "parse_args", "none", <<>>)
    ELSE IF s \in {Opt_d, Opt_device}
    THEN LET r == next(p)
         IN  IF r.ret = <<>> THEN Exit(xx, r.p, "exit1", "missing value", s)
             ELSE Exit([xx EXCEPT !.device = r.ret], r.p, "parse_args", "none", <<>>)
    ELSE IF s \in {Opt_i, Opt_id}
    THEN LET r == next(p)
         IN  IF r.ret = <<>> THEN Exit(xx, r.p, "exit1", "missing value", s)
             ELSE Exit([xx EXCEPT !.id = r.ret], r.p, "parse_args", "none", <<>>)
    ELSE IF unknown_option(s) THEN Exit(xx, p, "exit1", "unknown option", s)
    ELSE LET a == Adjust_parse(s)
         IN  IF a[1] = "Err" THEN Exit(xx, p, "exit1", "parse", s)
             ELSE Exit([xx EXCEPT !.adjusts = Append(@, a[2])], p,
                       "parse_args", "none", <<>>)

\* main.rs:353-359: the adjustments whose target channel the check refuses
out_of_range(adjusts, count) ==
    {k \in DOMAIN adjusts : adjusts[k].chan.kind = "N" /\ adjusts[k].chan.n >= count}

\* The raw arguments the run's command lines are made of
RunArgs ==
    { Opt_n, Opt_dry, Opt_dry_run, Opt_f, Opt_q, DoubleDash,
      <<"-", "n", "q">>, <<"-", "d", "x">>,
      <<"2">>, <<"L", "=", "5", "0">>, <<"R", "=", "L">>, <<"=", "c", "2">>,
      <<"-", "5">>, <<"x">> }

---------------------------------------------------------------------------
(* The values the variables of another specification's part rest at *)

NoArgs ==
    [device |-> <<>>, id |-> <<>>, force |-> FALSE, dry |-> FALSE,
     quiet |-> FALSE, adjusts |-> <<>>]

NoErr == [kind |-> "none", tok |-> <<>>]

PreIdle ==
    /\ argv = <<>>
    /\ pre = preprocess(<<>>)
    /\ ret = <<>>
    /\ emitted = <<>>

ParseIdle ==
    /\ input = <<>>
    /\ parsed = <<"None">>

RunIdle ==
    /\ pc = "idle"
    /\ x = NoArgs
    /\ err = NoErr
    /\ ai = 0

\* no set_master/set_channel call made yet
NoCall == [op |-> "none", c |-> 0, val |-> Zero]

VolIdle ==
    /\ vol = [master |-> Zero, channels |-> <<>>,
              init_master |-> Zero, init_channels |-> <<>>]
    /\ dev = [master |-> Zero, channels |-> <<>>]
    /\ writes = <<>>
    /\ status = "None"
    /\ call = [force |-> FALSE, screen_reader |-> FALSE, failAt |-> 0]
    /\ nops = 0
    /\ last = NoCall

---------------------------------------------------------------------------
(* The preprocessor's specification: one action, a call of next() *)

InitPre ==
    /\ argv \in SeqsUpTo(RawArgs, MaxArgs)
    /\ pre = preprocess(argv)
    /\ ret = <<>>
    /\ emitted = <<>>
    /\ ParseIdle
    /\ RunIdle
    /\ VolIdle

PreprocessorNext ==
    /\ pre' = next(pre).p
    /\ ret' = next(pre).ret
    /\ emitted' = emitted \o next(pre).ret
    /\ UNCHANGED <<argv, parseVars, runVars, volVars>>

NextPre == PreprocessorNext

SpecPre == InitPre /\ [][NextPre]_vars

\* a raw argument `-D...` whose first character after the dash is a digit
IsDashDigit(s) == Len(s) >= 2 /\ s[1] = "-" /\ s[2] \in Digits

\* C9: before `--`, the call of next() that pulls a raw argument `-D...`, D
\* starting with an ASCII digit (`-3`, `-42`, `-4d`), returns that argument
\* itself as one token and leaves nothing pending: it is never expanded.
C9_DigitTokenVerbatim ==
    [][ ( /\ pre.buf = <<>>
          /\ ~pre.double_dash
          /\ pre.args # <<>>
          /\ IsDashDigit(Head(pre.args)) )
        => ( /\ ret' = <<Head(pre.args)>>
             /\ emitted' = Append(emitted, Head(pre.args))
             /\ pre'.buf = <<>>
             /\ pre'.args = Tail(pre.args) ) ]_vars

\* C9 witness: `-4d` (d takes a value) was pulled before any `--` and came
\* back whole, after the one-character form `-3` did.
C9_Witness ==
    /\ argv = << <<"-", "3">>, <<"-", "4", "d">> >>
    /\ emitted = << <<"-", "3">>, <<"-", "4", "d">> >>
    /\ ~pre.double_dash
    /\ pre.buf = <<>>

\* C10: the first raw `--` is not returned and sets the mode; the mode never
\* returns to normal; in the mode every call with a raw argument left returns
\* exactly that argument, whatever it looks like, and queues nothing.
C10_StickyDoubleDash ==
    [][ /\ pre.double_dash => pre'.double_dash
        /\ (pre.double_dash /\ pre.args # <<>>)
           => ( /\ ret' = <<Head(pre.args)>>
                /\ pre'.buf = <<>>
                /\ pre'.args = Tail(pre.args) )
        /\ ( /\ pre.buf = <<>>
             /\ ~pre.double_dash
             /\ pre.args # <<>>
             /\ Head(pre.args) = DoubleDash )
           => ( /\ pre'.double_dash
                /\ pre'.buf = <<>>
                /\ IF Tail(pre.args) = <<>>
                   THEN ret' = <<>> /\ pre'.args = <<>> /\ emitted' = emitted
                   ELSE /\ ret' = <<pre.args[2]>>
                        /\ pre'.args = Tail(Tail(pre.args))
                        /\ emitted' = Append(emitted, pre.args[2]) ) ]_vars

\* C10 witness: after `--`, a cluster-shaped `-abc` and a second `--` were
\* both returned unchanged.
C10_Witness ==
    /\ argv = << DoubleDash, <<"-", "a", "b", "c">>, DoubleDash >>
    /\ emitted = << <<"-", "a", "b", "c">>, DoubleDash >>
    /\ pre.double_dash


\* the call of next() that pulls a raw argument in normal mode
Pulls(s) ==
    /\ pre.buf = <<>>
    /\ ~pre.double_dash
    /\ pre.args # <<>>
    /\ Head(pre.args) = s

\* the tokens a step of next() produced: the one returned, then those queued
Produced(toks) ==
    /\ ret' = <<Head(toks)>>
    /\ pre'.buf = Tail(toks)
    /\ pre'.args = Tail(pre.args)

\* the least index of flags holding a value-taking character, or 0
FirstValueFlag(flags) ==
    LET hits == {i \in 1..Len(flags) : flags[i] \in {"d", "i"}}
    IN  IF hits = {} THEN 0 ELSE CHOOSE i \in hits : \A j \in hits : i <= j

\* the expansion of the cluster `-flags`: one `-c` per character up to and
\* including the first value-taking one, then the remainder as one token
Expansion(flags) ==
    LET k == FirstValueFlag(flags)
        n == IF k = 0 THEN Len(flags) ELSE k
    IN  [i \in 1..n |-> <<"-", flags[i]>>]
        \o (IF k > 0 /\ k < Len(flags)
            THEN <<SubSeq(flags, k + 1, Len(flags))>> ELSE <<>>)

\* C11: before `--`, the call of next() that pulls `-c1...cn`, n >= 2, c1
\* neither a digit nor a dash, returns `-c1` and queues `-c2`, ... up to and
\* including the first value-taking character, then the characters after it
\* as one token; and a queued token is returned as it is, before any further
\* raw argument is pulled.
C11_ClusterExpansion ==
    [][ /\ \A s \in RawArgs :
              ( /\ Pulls(s)
                /\ Len(s) >= 3
                /\ s[1] = "-"
                /\ s[2] \notin Digits \cup {"-"} )
              => Produced(Expansion(Tail(s)))
        /\ pre.buf # <<>>
           => ( /\ ret' = <<Head(pre.buf)>>
                /\ pre'.buf = Tail(pre.buf)
                /\ pre'.args = pre.args ) ]_vars

\* C11 witness: `-abc`, `-dab` and `-ad` came out as -a -b -c, -d ab, -a -d.
C11_Witness ==
    /\ argv = << <<"-", "a", "b", "c">>, <<"-", "d", "a", "b">>, <<"-", "a", "d">> >>
    /\ emitted = << <<"-", "a">>, <<"-", "b">>, <<"-", "c">>,
                    <<"-", "d">>, <<"a", "b">>,
                    <<"-", "a">>, <<"-", "d">> >>
    /\ pre.buf = <<>>

\* C12: before `--`, a raw argument that starts with `--` and holds an `=`
\* after more than the two dashes is returned as the part before the first
\* `=`, with the part after it queued as one token; `--=value` and a `--`
\* argument without `=` are returned unchanged with nothing queued.
C12_LongFlagSplit ==
    [][ \A s \in RawArgs :
            ( /\ Pulls(s)
              /\ Len(s) >= 3
              /\ s[1] = "-"
              /\ s[2] = "-" )
            => LET eqs == {i \in 1..Len(s) : s[i] = "="}
                   i == IF eqs = {} THEN 0
                        ELSE CHOOSE i \in eqs : \A j \in eqs : i <= j
               IN  IF i > 3
                   THEN Produced(<<SubSeq(s, 1, i - 1), SubSeq(s, i + 1, Len(s))>>)
                   ELSE Produced(<<s>>) ]_vars

\* C12 witness: `--ab=c=d` gave `--ab` and `c=d`; `--=c` and `--ab` came
\* back whole.
C12_Witness ==
    /\ argv = << <<"-", "-", "a", "b", "=", "c", "=", "d">>,
                 <<"-", "-", "=", "c">>, <<"-", "-", "a", "b">> >>
    /\ emitted = << <<"-", "-", "a", "b">>, <<"c", "=", "d">>,
                    <<"-", "-", "=", "c">>, <<"-", "-", "a", "b">> >>

\* the long flag with a one-character name, `--a=b`
OneCharLong == <<"-", "-", "a", "=", "b">>

\* C13 as stated: the raw argument `--a=b` (a one-character name) is
\* emitted unsplit, as the single token `--a=b`.
C13_OneCharLongUnsplit ==
    (argv = <<OneCharLong>> /\ pre.args = <<>> /\ pre.buf = <<>>)
    => emitted = <<OneCharLong>>

\* C13 amended: `--a=b` is emitted as the two tokens `--a` and `b`: the part
\* before the `=` is three characters, more than the two dashes.
C13_OneCharLongSplit ==
    (argv # <<>> /\ argv[1] = OneCharLong)
    => /\ Len(emitted) >= 1 => emitted[1] = <<"-", "-", "a">>
       /\ Len(emitted) >= 2 => emitted[2] = <<"b">>
       /\ pre.args # argv => Len(emitted) + Len(pre.buf) >= 2

\* C13 witness: `--a=b` alone on the command line gave `--a` then `b`.
C13_Witness ==
    /\ argv = <<OneCharLong>>
    /\ emitted = << <<"-", "-", "a">>, <<"b">> >>

\* the number of raw arguments pulled so far
Consumed == Len(argv) - Len(pre.args)

\* the index of the first `--` among the raw arguments, or 0
FirstRawDoubleDash ==
    LET hits == {i \in 1..Len(argv) : argv[i] = DoubleDash}
    IN  IF hits = {} THEN 0 ELSE CHOOSE i \in hits : \A j \in hits : i <= j

\* the tokens raw argument i produces: none for the first `--`, itself
\* after it, and before it the long-flag split, the cluster expansion or
\* itself
TokensOf(i) ==
    LET s == argv[i]
        k == FirstRawDoubleDash
        eq == Find(s, {"="})
    IN  IF k > 0 /\ i = k THEN <<>>
        ELSE IF k > 0 /\ i > k THEN <<s>>
        ELSE IF Len(s) >= 2 /\ s[1] = "-" /\ s[2] = "-"
        THEN IF eq > 3 THEN <<SubSeq(s, 1, eq - 1), SubSeq(s, eq + 1, Len(s))>>
             ELSE <<s>>
        ELSE IF Len(s) >= 3 /\ s[1] = "-" /\ s[2] \notin Digits
        THEN Expansion(Tail(s))
        ELSE <<s>>

\* the tokens of raw arguments 1..n, in order
RECURSIVE TokensUpTo(_)
TokensUpTo(n) == IF n = 0 THEN <<>> ELSE TokensUpTo(n - 1) \o TokensOf(n)

\* what is left to do: the queued tokens and the characters not yet pulled
RECURSIVE Remaining(_)
Remaining(args) ==
    IF args = <<>> THEN 0 ELSE Len(Head(args)) + 1 + Remaining(Tail(args))

Measure(p) == Len(p.buf) + Remaining(p.args)

\* C22: every call of next() either lessens what is left (queued tokens
\* plus unpulled raw arguments) or returns None and changes nothing, and
\* None is returned only with nothing left, so the tokens are finitely many
\* and None follows forever; a raw argument is pulled only on an empty
\* queue; the raw arguments are pulled front to back, each once; and the
\* tokens returned so far, followed by the queued ones, are the tokens of
\* the pulled raw arguments in argument order and production order.
C22_OrderAndTermination ==
    [][ /\ \/ Measure(pre') < Measure(pre)
           \/ ret' = <<>> /\ pre' = pre /\ emitted' = emitted
        /\ ret' = <<>> => pre'.args = <<>> /\ pre'.buf = <<>>
        /\ pre'.args # pre.args => pre.buf = <<>>
        /\ \E n \in 0..2 : /\ n <= Len(pre.args)
                           /\ pre'.args = SubSeq(pre.args, n + 1, Len(pre.args))
        /\ pre.args = SubSeq(argv, Consumed + 1, Len(argv))
        /\ emitted' \o pre'.buf = TokensUpTo(Len(argv) - Len(pre'.args))
      ]_vars

\* C22 witness: `-ab`, `--ab=c`, `b` came out as -a -b --ab c b, and a
\* further call returned None.
C22_Witness ==
    /\ argv = << <<"-", "a", "b">>, <<"-", "-", "a", "b", "=", "c">>, <<"b">> >>
    /\ emitted = << <<"-", "a">>, <<"-", "b">>, <<"-", "-", "a", "b">>,
                    <<"c">>, <<"b">> >>
    /\ pre.args = <<>>
    /\ pre.buf = <<>>
    /\ ret = <<>>

---------------------------------------------------------------------------
(* The parser's specification: Adjust::parse applied to a string *)

InitParse ==
    /\ input \in SeqsUpTo(ParseChars, MaxLen) \cup ParseExamples
    /\ parsed = <<"None">>
    /\ PreIdle
    /\ RunIdle
    /\ VolIdle

Parse ==
    /\ parsed = <<"None">>
    /\ parsed' = Adjust_parse(input)
    /\ UNCHANGED <<input, preVars, runVars, volVars>>

NextParse == Parse

SpecParse == InitParse /\ [][NextParse]_vars

\* C3: no successfully parsed adjustment carries a literal above 100.
C3_LiteralAtMost100 ==
    (parsed[1] = "Ok" /\ parsed[2].val.kind = "N") => parsed[2].val.n <= 100

AllDigits(s) == s # <<>> /\ \A i \in 1..Len(s) : s[i] \in Digits

\* the number a string of decimal digits writes
RECURSIVE DecVal(_)
DecVal(s) ==
    IF s = <<>> THEN 0
    ELSE 10 * DecVal(SubSeq(s, 1, Len(s) - 1)) + DigitVal(s[Len(s)])

\* the grammar's value_expr: integer(0..100), a level letter, or c<integer>
IsValueExpr(s) ==
    \/ s \in {<<"m">>, <<"M">>, <<"l">>, <<"L">>, <<"r">>, <<"R">>}
    \/ s # <<>> /\ s[1] \in {"c", "C"} /\ AllDigits(Tail(s))
    \/ AllDigits(s) /\ Len(s) <= 3 /\ DecVal(s) <= 100

OpOf(c) == CASE c = "+" -> "Inc" [] c = "-" -> "Dec" [] c = "=" -> "Set"

\* C8: every input `N<op><value>`, N written in decimal digits, parses to
\* an adjustment of channel Index(N); and "c2=50" parses to
\* {Set, Index(2), Literal(50)}.
C8_ChannelByNumber ==
    LET i == Find(input, {"+", "-", "="})
    IN  /\ ( /\ parsed # <<"None">>
             /\ i > 1
             /\ AllDigits(SubSeq(input, 1, i - 1))
             /\ IsValueExpr(Suffix(input, i + 1)) )
           => ( /\ parsed[1] = "Ok"
                /\ parsed[2].chan = ChannelN(DecVal(SubSeq(input, 1, i - 1)))
                /\ parsed[2].op = OpOf(input[i]) )
        /\ (parsed # <<"None">> /\ input = <<"c", "2", "=", "5", "0">>)
           => parsed = <<"Ok", Adjust("Set", ChannelN(2), ValueN(50))>>


\* a letter in its other case; any other character as it is
ToggleCase(c) ==
    CASE c = "l" -> "L" [] c = "L" -> "l"
      [] c = "r" -> "R" [] c = "R" -> "r"
      [] c = "a" -> "A" [] c = "A" -> "a"
      [] c = "m" -> "M" [] c = "M" -> "m"
      [] c = "c" -> "C" [] c = "C" -> "c"
      [] OTHER -> c

\* the strings s becomes when any of its letters change case
CaseVariants(s) ==
    {[i \in 1..Len(s) |-> IF i \in S THEN ToggleCase(s[i]) ELSE s[i]] :
        S \in SUBSET (1..Len(s))}

\* the shorthand form's channel and value text, by the leading letter
ShorthandChannel(s) ==
    IF s = <<>> THEN ChannelMaster
    ELSE CASE s[1] \in {"L", "l"} -> ChannelN(0)
           [] s[1] \in {"R", "r"} -> ChannelN(1)
           [] s[1] \in {"A", "a"} -> ChannelAll
           [] OTHER -> ChannelMaster

ShorthandValue(s) ==
    IF s # <<>> /\ s[1] \in {"L", "l", "R", "r", "A", "a", "M", "m"}
    THEN Tail(s) ELSE s

\* C17: an input without '+', '-' or '=' is a Set of the channel its leading
\* letter names (L, R, A, M; otherwise Master), the rest being the value;
\* any other input is split at its first operator character, which names
\* the operation, the text before it being the channel and the text after
\* it the value; the four examples parse as stated; and the result is the
\* same for every change of letter case in the input.
C17_ParsingByForm ==
    parsed # <<"None">>
    => LET i == Find(input, {"+", "-", "="})
           chan == IF i = 0 THEN <<"Ok", ShorthandChannel(input)>>
                   ELSE Channel_parse(SubSeq(input, 1, i - 1))
           val == IF i = 0 THEN Value_parse(ShorthandValue(input))
                  ELSE Value_parse(SubSeq(input, i + 1, Len(input)))
           op == IF i = 0 THEN "Set" ELSE OpOf(input[i])
       IN  /\ (chan[1] = "Ok" /\ val[1] = "Ok")
              => parsed = <<"Ok", [op |-> op, chan |-> chan[2], val |-> val[2]]>>
           /\ (chan[1] = "Err" \/ val[1] = "Err")
              => parsed \in {chan, val} /\ parsed[1] = "Err"
           /\ input = <<"L", "4", "0">>
              => parsed = <<"Ok", [op |-> "Set", chan |-> ChannelN(0), val |-> ValueN(40)]>>
           /\ input = <<"+", "1", "0">>
              => parsed = <<"Ok", [op |-> "Inc", chan |-> ChannelMaster, val |-> ValueN(10)]>>
           /\ input = <<"R", "-", "M">>
              => parsed = <<"Ok", [op |-> "Dec", chan |-> ChannelN(1),
                                   val |-> ValueMasterChannel]>>
           /\ input = <<>> => parsed = <<"Err", "missing a value">>
           /\ \A t \in CaseVariants(input) : Adjust_parse(t) = parsed

\* C17 witness: the shorthand "r5" parsed to a Set of channel 1 to 5, which
\* "R5" parses to as well.
C17_Witness ==
    /\ input = <<"r", "5">>
    /\ parsed = <<"Ok", [op |-> "Set", chan |-> ChannelN(1), val |-> ValueN(5)]>>
    /\ <<"R", "5">> \in CaseVariants(input)

---------------------------------------------------------------------------
(* The volume model's specification: a Volume built from a device, then    *)
(* set_master and set_channel calls, then one commit                       *)

InitVol ==
    /\ \E n \in 0..MaxChan : \E m \in DevLevels : \E chs \in [1..n -> DevLevels] :
          dev = [master |-> m, channels |-> chs]
    /\ vol = Volume_new(dev)
    /\ writes = <<>>
    /\ status = "None"
    /\ call = [force |-> FALSE, screen_reader |-> FALSE, failAt |-> 0]
    /\ nops = 0
    /\ last = NoCall
    /\ PreIdle
    /\ ParseIdle
    /\ RunIdle

SetMaster ==
    \E val \in SetLevels :
        /\ status = "None"
        /\ nops < MaxOps
        /\ vol' = set_master(vol, val)
        /\ nops' = nops + 1
        /\ last' = [op |-> "set_master", c |-> 0, val |-> val]
        /\ UNCHANGED <<dev, writes, status, call, preVars, parseVars, runVars>>

SetChannel ==
    \E c \in 0..(chan_count(vol) - 1) : \E val \in SetLevels :
        /\ status = "None"
        /\ nops < MaxOps
        /\ vol' = set_channel(vol, c, val)
        /\ nops' = nops + 1
        /\ last' = [op |-> "set_channel", c |-> c, val |-> val]
        /\ UNCHANGED <<dev, writes, status, call, preVars, parseVars, runVars>>

Commit ==
    \E force \in BOOLEAN : \E screen_reader \in BOOLEAN :
    \E failAt \in 0..Len(commit_writes(vol)) :
        LET r == commit(vol, dev, force, screen_reader, failAt)
        IN  /\ status = "None"
            /\ status' = r.status
            /\ writes' = r.writes
            /\ dev' = r.dev
            /\ call' = [force |-> force, screen_reader |-> screen_reader,
                        failAt |-> failAt]
            /\ UNCHANGED <<vol, nops, last, preVars, parseVars, runVars>>

NextVol == SetMaster \/ SetChannel \/ Commit

SpecVol == InitVol /\ [][NextVol]_vars

\* C1: a commit with force = false, the screen reader active, and a master
\* both lower than init_master and below 0.05 returns the guard error and
\* issues no device write, for every channel count.
C1_GuardRefuses ==
    ( /\ status # "None"
      /\ ~call.force
      /\ call.screen_reader
      /\ RLt(vol.master, vol.init_master)
      /\ RLt(vol.master, Rat(5, 100)) )
    => (status = "Guard" /\ writes = <<>>)

\* the channels commit is to write: those that differ from the snapshot, or
\* all of them when the master differs
DirtyChannels ==
    {c \in 0..(Len(vol.channels) - 1) :
        vol.master # vol.init_master \/ vol.channels[c + 1] # vol.init_channels[c + 1]}

\* C4: a commit the guard does not refuse (every forced one) and in which no
\* device write fails returns success, and its writes are: the master first
\* iff it differs from init_master, then one write of channels[i], in
\* ascending i, for exactly the channels that differ from the snapshot, or
\* all of them when the master differs.
C4_WriteSequence ==
    LET off == IF vol.master # vol.init_master THEN 1 ELSE 0
    IN  /\ (status # "None" /\ call.failAt = 0 /\ (call.force \/ status # "Guard"))
           => status = "Ok"
        /\ status = "Ok"
           => ( /\ Len(writes) = off + Cardinality(DirtyChannels)
                /\ off = 1 => writes[1] = MasterWrite(vol.master)
                /\ \A k \in (off + 1)..Len(writes) :
                      /\ writes[k].kind = "channel"
                      /\ writes[k].chan \in DirtyChannels
                      /\ writes[k].level = vol.channels[writes[k].chan + 1]
                /\ \A k \in (off + 1)..(Len(writes) - 1) :
                      writes[k].chan < writes[k + 1].chan
                /\ dev = [master |-> vol.master, channels |-> vol.channels] )

\* C4 witness: a forced commit after set_channel raised the master: the
\* master and both channels are written, one of them unchanged since the
\* snapshot.
C4_Witness ==
    /\ status = "Ok"
    /\ call.force
    /\ vol.master # vol.init_master
    /\ Len(vol.channels) = 2
    /\ vol.channels[1] = vol.init_channels[1]
    /\ Len(writes) = 3

\* C5: commit on a model whose master and channels equal the snapshot
\* issues no device write and returns success, also after set_* calls
\* brought the levels back to the snapshot.
C5_NoWritesAtSnapshot ==
    ( /\ status # "None"
      /\ vol.master = vol.init_master
      /\ vol.channels = vol.init_channels )
    => (status = "Ok" /\ writes = <<>>)

\* C5 witness: two set_master calls changed the levels and restored them,
\* and the commit that followed wrote nothing.
C5_Witness ==
    /\ status = "Ok"
    /\ nops = 2
    /\ Len(vol.channels) = 2
    /\ vol.master # Zero
    /\ vol.master = vol.init_master
    /\ vol.channels = vol.init_channels
    /\ writes = <<>>

\* C6: when a device write fails during commit, commit returns the device
\* error, the failed call is the last one made, and the writes made before
\* it stay on the device: every other level of the device is as it was.
C6_FailureStopsCommit ==
    (status \notin {"None", "Guard"} /\ call.failAt > 0)
    => LET done == SubSeq(writes, 1, Len(writes) - 1)
           doneChans == {done[k].chan : k \in {j \in DOMAIN done : done[j].kind = "channel"}}
           masterDone == \E k \in DOMAIN done : done[k].kind = "master"
       IN  /\ status = "Device"
           /\ Len(writes) = call.failAt
           /\ dev.master = IF masterDone THEN vol.master ELSE vol.init_master
           /\ \A c \in 0..(Len(vol.channels) - 1) :
                 dev.channels[c + 1] = IF c \in doneChans THEN vol.channels[c + 1]
                                       ELSE vol.init_channels[c + 1]

\* C6 witness: the second device call (the write of channel 0) failed after
\* the master write succeeded: the new master is on the device, channel 1
\* was never written.
C6_Witness ==
    /\ status = "Device"
    /\ call.failAt = 2
    /\ Len(vol.channels) = 2
    /\ Len(writes) = 2
    /\ writes[1].kind = "master"
    /\ dev.master = vol.master
    /\ dev.master # vol.init_master
    /\ vol.channels[2] # vol.init_channels[2]
    /\ dev.channels[2] = vol.init_channels[2]

\* a level cut to [0, 1]
Unit(val) == IF RLt(val, Zero) THEN Zero ELSE IF RLt(One, val) THEN One ELSE val

InUnit(val) == RLe(Zero, val) /\ RLe(val, One)

\* the step is a call of the setter op
Called(op) == nops' = nops + 1 /\ last'.op = op

Half == Rat(1, 2)

\* C14: set_master(v) with v clamping to 0 sets master and every channel
\* to 0; set_master(v) with v > 0 on a master of 0 sets master and every
\* channel to v; so set_master(0.5) straight after set_master(0) leaves
\* every channel at 0.5, whatever the levels were before the mute.
C14_MuteUnmute ==
    [][ Called("set_master")
        => LET v == Unit(last'.val)
           IN  /\ Len(vol'.channels) = Len(vol.channels)
               /\ v = Zero
                  => /\ vol'.master = Zero
                     /\ \A i \in DOMAIN vol'.channels : vol'.channels[i] = Zero
               /\ (v # Zero /\ vol.master = Zero)
                  => /\ vol'.master = v
                     /\ \A i \in DOMAIN vol'.channels : vol'.channels[i] = v
               /\ ( /\ last.op = "set_master"
                    /\ Unit(last.val) = Zero
                    /\ last'.val = Half )
                  => /\ vol'.master = Half
                     /\ \A i \in DOMAIN vol'.channels : vol'.channels[i] = Half
      ]_vars

\* C14 witness: channels that started at 0.4 and 0.8 are both at 0.5 after
\* two calls, the second set_master(0.5); only a mute in between levels them.
C14_Witness ==
    /\ nops = 2
    /\ last = [op |-> "set_master", c |-> 0, val |-> Half]
    /\ vol.init_channels = <<Rat(2, 5), Rat(4, 5)>>
    /\ vol.master = Half
    /\ vol.channels = <<Half, Half>>

\* C15: set_master(v), v not clamping to 0, on a master m # 0 sets every
\* channel i to v * (channels[i] / m) and master to v, so that
\* new_channel[i] * m = v * old_channel[i]; master 0.8 with channels
\* [0.4, 0.8] becomes, under set_master(0.4), channels [0.2, 0.4].
C15_ProportionalScaling ==
    [][ ( /\ Called("set_master")
          /\ Unit(last'.val) # Zero
          /\ vol.master # Zero )
        => LET v == Unit(last'.val)
           IN  /\ vol'.master = v
               /\ Len(vol'.channels) = Len(vol.channels)
               /\ \A i \in DOMAIN vol.channels :
                      /\ vol'.channels[i] = RMul(v, RDiv(vol.channels[i], vol.master))
                      /\ RMul(vol'.channels[i], vol.master) = RMul(v, vol.channels[i])
               /\ ( /\ vol.master = Rat(4, 5)
                    /\ vol.channels = <<Rat(2, 5), Rat(4, 5)>>
                    /\ last'.val = Rat(2, 5) )
                  => vol'.channels = <<Rat(1, 5), Rat(2, 5)>>
      ]_vars

\* C15 witness: the example's device after its one call.
C15_Witness ==
    /\ nops = 1
    /\ last = [op |-> "set_master", c |-> 0, val |-> Rat(2, 5)]
    /\ vol.init_master = Rat(4, 5)
    /\ vol.init_channels = <<Rat(2, 5), Rat(4, 5)>>
    /\ vol.master = Rat(2, 5)
    /\ vol.channels = <<Rat(1, 5), Rat(2, 5)>>

\* C16: set_channel(c, v) on an existing channel c sets channels[c] to
\* clamp(v, 0, 1), leaves every other channel and the init_* snapshot
\* unchanged, and sets master to the maximum of the channel list after the
\* write.
C16_SetChannelFrame ==
    [][ Called("set_channel")
        => LET c == last'.c + 1
               v == Unit(last'.val)
           IN  /\ c \in DOMAIN vol.channels
               /\ Len(vol'.channels) = Len(vol.channels)
               /\ vol'.channels[c] = v
               /\ \A i \in DOMAIN vol.channels :
                      i # c => vol'.channels[i] = vol.channels[i]
               /\ vol'.init_master = vol.init_master
               /\ vol'.init_channels = vol.init_channels
               /\ \A i \in DOMAIN vol'.channels : RLe(vol'.channels[i], vol'.master)
               /\ \E i \in DOMAIN vol'.channels : vol'.channels[i] = vol'.master
      ]_vars

\* C16 witness: set_channel(0, 0.9) on channels [0.4, 0.8] left master 0.9.
C16_Witness ==
    /\ nops = 1
    /\ last = [op |-> "set_channel", c |-> 0, val |-> Rat(9, 10)]
    /\ vol.init_channels = <<Rat(2, 5), Rat(4, 5)>>
    /\ vol.channels = <<Rat(9, 10), Rat(4, 5)>>
    /\ vol.master = Rat(9, 10)

\* C18: master and every channel stay within [0, 1] after any sequence of
\* set_master and set_channel calls, on any device, and commit writes no
\* level outside [0, 1].
C18_LevelsInUnitInterval ==
    /\ InUnit(vol.master)
    /\ \A i \in DOMAIN vol.channels : InUnit(vol.channels[i])
    /\ \A k \in DOMAIN writes : InUnit(writes[k].level)

\* m is the largest of a non-empty list of levels
IsMax(levels, m) ==
    /\ \A i \in DOMAIN levels : RLe(levels[i], m)
    /\ \E i \in DOMAIN levels : levels[i] = m

\* C21: on a Volume with at least one channel whose init_master is the
\* largest of its init_channels, master is the largest of channels in every
\* state that set_master and set_channel calls reach (levels being exact).
C21_MasterTracksLoudest ==
    (vol.init_channels # <<>> /\ IsMax(vol.init_channels, vol.init_master))
    => IsMax(vol.channels, vol.master)

\* C21 witness: two calls, the second a set_master, on channels that began
\* at 0.4 and 0.8 under master 0.8, left unequal channels under a new
\* master that is the larger of them.
C21_Witness ==
    /\ nops = 2
    /\ last.op = "set_master"
    /\ vol.init_master = Rat(4, 5)
    /\ vol.init_channels = <<Rat(2, 5), Rat(4, 5)>>
    /\ vol.master \notin {Zero, vol.init_master}
    /\ vol.channels[1] # vol.channels[2]
    /\ IsMax(vol.channels, vol.master)


---------------------------------------------------------------------------
(* The run's specification: run() from the command line to its exit *)

Init ==
    /\ argv \in SeqsUpTo(RunArgs, MaxRunArgs)
    \* main.rs:219-223: empty arguments are dropped
    /\ pre = preprocess(SelectSeq(argv, LAMBDA s : s # <<>>))
    /\ ret = <<>>
    /\ emitted = <<>>
    /\ pc = "parse_args"
    /\ x = NoArgs
    /\ err = NoErr
    /\ ai = 0
    /\ ParseIdle
    /\ VolIdle

\* main.rs:234-312: one turn of parse_args' loop
ParseArg ==
    \E enumerate_fails \in BOOLEAN :
        /\ pc = "parse_args"
        /\ LET r == next(pre)
               t == IF r.ret = <<>> THEN Exit(x, r.p, "device", "none", <<>>)
                    ELSE parse_arg(x, r.p, r.ret[1], enumerate_fails)
           IN  /\ pre' = t.p
               /\ ret' = r.ret
               /\ emitted' = emitted \o r.ret
               /\ x' = t.x
               /\ pc' = t.pc
               /\ err' = t.err
        /\ UNCHANGED <<argv, ai, parseVars, volVars>>

\* main.rs:318-351: the device is resolved and read, or an error ends the run
OpenDevice ==
    /\ pc = "device"
    /\ \/ /\ \E n \in 0..MaxChan : \E m \in DevLevels : \E chs \in [1..n -> DevLevels] :
                /\ dev' = [master |-> m, channels |-> chs]
                /\ vol' = Volume_new([master |-> m, channels |-> chs])
          /\ pc' = "validate"
          /\ err' = err
       \/ /\ pc' = "exit1"
          /\ err' = [kind |-> "device", tok |-> <<>>]
          /\ UNCHANGED <<dev, vol>>
    /\ UNCHANGED <<x, ai, writes, status, call, nops, last, preVars, parseVars>>

\* main.rs:353-359: the range check of the adjustments' target channels
Validate ==
    /\ pc = "validate"
    /\ IF out_of_range(x.adjusts, chan_count(vol)) # {}
       THEN pc' = "exit1" /\ err' = [kind |-> "range", tok |-> <<>>] /\ ai' = ai
       ELSE /\ pc' = IF x.adjusts = <<>> THEN "commit" ELSE "apply"
            /\ ai' = 1
            /\ err' = err
    /\ UNCHANGED <<x, preVars, parseVars, volVars>>

\* main.rs:361-363: one turn of the apply loop
Apply ==
    /\ pc = "apply"
    /\ LET r == Adjust_apply(x.adjusts[ai], vol)
       IN  IF r[1] = "Panic"
           THEN /\ pc' = "panic"
                /\ err' = [kind |-> "panic", tok |-> <<>>]
                /\ UNCHANGED <<vol, ai, nops>>
           ELSE /\ vol' = r[2]
                /\ ai' = ai + 1
                /\ nops' = nops + 1
                /\ pc' = IF ai = Len(x.adjusts) THEN "commit" ELSE "apply"
                /\ err' = err
    /\ UNCHANGED <<x, dev, writes, status, call, last, preVars, parseVars>>

\* main.rs:365-389: commit unless this is a dry run or nothing was asked
\* for, then the report
RunCommit ==
    /\ pc = "commit"
    /\ IF ~x.dry /\ x.adjusts # <<>>
       THEN \E screen_reader \in BOOLEAN : \E failAt \in 0..Len(commit_writes(vol)) :
                LET r == commit(vol, dev, x.force, screen_reader, failAt)
                IN  /\ status' = r.status
                    /\ writes' = r.writes
                    /\ dev' = r.dev
                    /\ call' = [force |-> x.force, screen_reader |-> screen_reader,
                                failAt |-> failAt]
                    /\ pc' = IF r.status = "Ok" THEN "done" ELSE "exit1"
                    /\ err' = IF r.status = "Ok" THEN err
                              ELSE [kind |-> r.status, tok |-> <<>>]
       ELSE /\ pc' = "done"
            /\ UNCHANGED <<status, writes, dev, call, err>>
    /\ UNCHANGED <<x, ai, vol, nops, last, preVars, parseVars>>

Next == ParseArg \/ OpenDevice \/ Validate \/ Apply \/ RunCommit

Spec == Init /\ [][Next]_vars

\* the channel numbers adjustment a references: its target and its value source
ChannelRefs(a) ==
    (IF a.chan.kind = "N" THEN {a.chan.n} ELSE {})
    \cup (IF a.val.kind = "Channel" THEN {a.val.n} ELSE {})

\* C2: once the range check has passed (the apply loop is entered), every
\* channel number the adjustments reference, as target or as value source,
\* is below chan_count(); so Adjust::apply never indexes a channel past the
\* end and the run never panics.
C2_AllReferencesChecked ==
    /\ ai >= 1 => \A k \in DOMAIN x.adjusts :
                      \A c \in ChannelRefs(x.adjusts[k]) : c < chan_count(vol)
    /\ pc # "panic"

\* C7: both documented spellings of the dry run, `-n` and `--dry-run`, are
\* accepted (neither ends the run as an unknown option), and a dry run never
\* calls commit and issues no device write.
C7_DryRunBothSpellings ==
    /\ ~( /\ pc = "exit1"
          /\ err.kind = "unknown option"
          /\ err.tok \in {Opt_n, Opt_dry_run} )
    /\ x.dry => (status = "None" /\ writes = <<>>)

\* the level an operation makes of old, by a value already resolved
Target(op, old, val) ==
    CASE op = "Set" -> Unit(val)
      [] op = "Inc" -> Unit(RAdd(old, val))
      [] op = "Dec" -> Unit(RSub(old, val))

LeftSetsRight == << <<"L", "=", "5", "0">>, <<"R", "=", "L">> >>

\* C19: every turn of the apply loop takes the next adjustment in
\* command-line order and resolves its value from the levels as they are
\* at that turn (the literal / 100, the current master, or the current
\* channel n), so the target is set from the levels the earlier adjustments
\* left; "L=50" then "R=L" leaves channels 0 and 1 at 0.50.
C19_DeferredResolution ==
    [][ (pc = "apply" /\ pc' # "panic")
        => LET a == x.adjusts[ai]
               val == CASE a.val.kind = "N" -> Rat(a.val.n, 100)
                        [] a.val.kind = "MasterChannel" -> vol.master
                        [] a.val.kind = "Channel" -> vol.channels[a.val.n + 1]
           IN  /\ ai' = ai + 1
               /\ x' = x
               /\ a.chan.kind = "Master"
                  => vol'.master = Target(a.op, vol.master, val)
               /\ a.chan.kind = "N"
                  => vol'.channels[a.chan.n + 1]
                        = Target(a.op, vol.channels[a.chan.n + 1], val)
               /\ (argv = LeftSetsRight /\ ai = 2)
                  => vol'.channels[1] = Half /\ vol'.channels[2] = Half
      ]_vars

\* C19 witness: after "L=50" and "R=L" on a two-channel device, channel 1 is
\* at 0.50, a level it did not start at.
C19_Witness ==
    /\ argv = LeftSetsRight
    /\ pc = "commit"
    /\ ai = 3
    /\ vol.channels[1] = Half
    /\ vol.channels[2] = Half
    /\ vol.init_channels[1] # Half

\* the index of the first `--` of the command line, or 0
FirstDoubleDash ==
    LET hits == {i \in 1..Len(argv) : argv[i] = DoubleDash}
    IN  IF hits = {} THEN 0 ELSE CHOOSE i \in hits : \A j \in hits : i <= j

\* C20: when no argument before the first `--` starts with a dash, nothing
\* of the command line is taken as an option: force, dry, quiet, device
\* and id keep their defaults, and the run ends with no option's exit
\* (help, version, list, unknown option, missing value).
C20_EndOfOptions ==
    ( /\ FirstDoubleDash > 0
      /\ \A j \in 1..(FirstDoubleDash - 1) : argv[j][1] # "-" )
    => /\ ~x.force
       /\ ~x.dry
       /\ ~x.quiet
       /\ x.device = <<>>
       /\ x.id = <<>>
       /\ err.kind \notin {"help", "version", "list", "unknown option",
                           "missing value"}

=============================================================================
